---- MODULE Spec2Model ----
(***************************************************************************)
(* Model of the video checker server (src/server.js): the POST             *)
(* /analyze-video handler, the ffprobe metadata normalisation, the         *)
(* validation of a video descriptor and the periodic sweep of the temp     *)
(* directory.                                                              *)
(*                                                                         *)
(* JavaScript numbers are IEEE 754 binary64 values.  They are modelled     *)
(* exactly: a finite number is sign * m * 2^e with a 53-bit significand m  *)
(* held as a big natural, and every arithmetic operation rounds to nearest *)
(* (ties to even) as the hardware does.  Strings are sequences of          *)
(* one-character strings, so that includes(), toLowerCase() and the        *)
(* parsers work on the characters.                                         *)
(***************************************************************************)
EXTENDS Integers, Sequences, FiniteSets, TLC

(***************************************************************************)
(* Big naturals: little-endian sequences of limbs in base 2^13, without    *)
(* high zero limbs (zero is the empty sequence).                           *)
(***************************************************************************)
Base == 2^13

Max(a, b) == IF a >= b THEN a ELSE b

Min(a, b) == IF a <= b THEN a ELSE b

Limb(a, i) == IF i >= 1 /\ i <= Len(a) THEN a[i] ELSE 0

RECURSIVE BigNorm(_)
BigNorm(a) ==
    IF a = <<>> THEN <<>>
    ELSE IF a[Len(a)] = 0 THEN BigNorm(SubSeq(a, 1, Len(a) - 1))
    ELSE a

RECURSIVE BigFromNat(_)
BigFromNat(n) ==
    IF n = 0 THEN <<>> ELSE <<n % Base>> \o BigFromNat(n \div Base)

RECURSIVE BigToNat(_)
BigToNat(a) ==
    IF a = <<>> THEN 0 ELSE a[1] + Base * BigToNat(Tail(a))

RECURSIVE BigAddFrom(_, _, _, _)
BigAddFrom(a, b, i, carry) ==
    IF i > Max(Len(a), Len(b))
    THEN (IF carry = 0 THEN <<>> ELSE <<carry>>)
    ELSE LET s == Limb(a, i) + Limb(b, i) + carry
         IN  <<s % Base>> \o BigAddFrom(a, b, i + 1, s \div Base)

BigAdd(a, b) == BigAddFrom(a, b, 1, 0)

RECURSIVE BigSubFrom(_, _, _, _)
BigSubFrom(a, b, i, borrow) ==
    IF i > Len(a) THEN <<>>
    ELSE LET d == Limb(a, i) - Limb(b, i) - borrow
         IN  IF d < 0
             THEN <<d + Base>> \o BigSubFrom(a, b, i + 1, 1)
             ELSE <<d>> \o BigSubFrom(a, b, i + 1, 0)

\* a - b for a >= b
BigSub(a, b) == BigNorm(BigSubFrom(a, b, 1, 0))

RECURSIVE BigCmpFrom(_, _, _)
BigCmpFrom(a, b, i) ==
    IF i = 0 THEN 0
    ELSE IF a[i] < b[i] THEN -1
    ELSE IF a[i] > b[i] THEN 1
    ELSE BigCmpFrom(a, b, i - 1)

\* -1, 0 or 1 as a < b, a = b, a > b
BigCmp(a, b) ==
    IF Len(a) < Len(b) THEN -1
    ELSE IF Len(a) > Len(b) THEN 1
    ELSE BigCmpFrom(a, b, Len(a))

RECURSIVE BigColumn(_, _, _, _)
BigColumn(a, b, k, i) ==
    IF i > Len(a) THEN 0
    ELSE Limb(a, i) * Limb(b, k - i + 1) + BigColumn(a, b, k, i + 1)

RECURSIVE BigMulFrom(_, _, _, _)
BigMulFrom(a, b, k, carry) ==
    IF k > Len(a) + Len(b) - 1 THEN BigFromNat(carry)
    ELSE LET s == BigColumn(a, b, k, 1) + carry
         IN  <<s % Base>> \o BigMulFrom(a, b, k + 1, s \div Base)

BigMul(a, b) ==
    IF a = <<>> \/ b = <<>> THEN <<>> ELSE BigNorm(BigMulFrom(a, b, 1, 0))

\* a * 2^s
BigShl(a, s) ==
    IF a = <<>> THEN <<>>
    ELSE [i \in 1..(s \div 13) |-> 0] \o BigMul(a, <<2^(s % 13)>>)

\* floor(a / 2^s)
BigShr(a, s) ==
    LET q == s \div 13
        t == s % 13
        d == SubSeq(a, q + 1, Len(a))
    IN  BigNorm([i \in 1..Len(d) |->
                    (d[i] \div 2^t) + (Limb(d, i + 1) % 2^t) * 2^(13 - t)])

\* bit i of a, bit 0 the least significant
BigBit(a, i) == (Limb(a, (i \div 13) + 1) \div 2^(i % 13)) % 2

\* a mod 2^s = 0
BigLowZero(a, s) == \A i \in 0..(s - 1) : BigBit(a, i) = 0

RECURSIVE NatBitLen(_)
NatBitLen(n) == IF n = 0 THEN 0 ELSE 1 + NatBitLen(n \div 2)

BigBitLen(a) ==
    IF a = <<>> THEN 0 ELSE 13 * (Len(a) - 1) + NatBitLen(a[Len(a)])

RECURSIVE NatTrailingZeros(_)
NatTrailingZeros(n) == IF n % 2 = 1 THEN 0 ELSE 1 + NatTrailingZeros(n \div 2)

RECURSIVE FirstLimb(_, _)
FirstLimb(a, i) == IF a[i] # 0 THEN i ELSE FirstLimb(a, i + 1)

\* the number of low zero bits of a > 0
BigTrailingZeros(a) ==
    LET i == FirstLimb(a, 1) IN 13 * (i - 1) + NatTrailingZeros(a[i])

(***************************************************************************)
(* binary64 numbers.  k is "fin", "inf" or "nan"; a finite number is       *)
(* (-1)^neg * m * 2^e with m = <<>> (zero, e = 0) or 2^52 <= m < 2^53.     *)
(* The exponent range of binary64 is not modelled: every value the model   *)
(* computes lies far inside the normal range.                              *)
(***************************************************************************)
NaN == [k |-> "nan", neg |-> FALSE, m |-> <<>>, e |-> 0]

Infinity(neg) == [k |-> "inf", neg |-> neg, m |-> <<>>, e |-> 0]

DblZero(neg) == [k |-> "fin", neg |-> neg, m |-> <<>>, e |-> 0]

IsZero(x) == x.k = "fin" /\ x.m = <<>>

\* the binary64 nearest to (-1)^neg * (m + f) * 2^e, where 0 <= f < 1 and
\* sticky says f > 0; round to nearest, ties to even
DblRound(neg, m, e, sticky) ==
    LET L == BigBitLen(m) IN
    IF L = 0 THEN DblZero(neg)
    ELSE IF L <= 53
    THEN [k |-> "fin", neg |-> neg, m |-> BigShl(m, 53 - L), e |-> e - (53 - L)]
    ELSE LET s     == L - 53
             q     == BigShr(m, s)
             guard == BigBit(m, s - 1) = 1
             rest  == sticky \/ ~BigLowZero(m, s - 1)
             up    == guard /\ (rest \/ BigBit(q, 0) = 1)
             q2    == IF up THEN BigAdd(q, <<1>>) ELSE q
         IN  IF BigBitLen(q2) > 53
             THEN [k |-> "fin", neg |-> neg, m |-> BigShr(q2, 1), e |-> e + s + 1]
             ELSE [k |-> "fin", neg |-> neg, m |-> q2, e |-> e + s]

DblFromNat(n) == DblRound(FALSE, BigFromNat(n), 0, FALSE)

\* floor(r * 2^j / b) for r < b < 2^30
RECURSIVE ChunkQuot(_, _, _)
ChunkQuot(r, b, j) ==
    IF j = 0 THEN 0
    ELSE LET r2  == 2 * r
             bit == IF r2 >= b THEN 1 ELSE 0
         IN  bit * 2^(j - 1) + ChunkQuot(r2 - bit * b, b, j - 1)

\* (r * 2^j) mod b for r < b < 2^30
RECURSIVE ChunkRem(_, _, _)
ChunkRem(r, b, j) ==
    IF j = 0 \/ r = 0 THEN r
    ELSE IF 2 * r >= b THEN ChunkRem(2 * r - b, b, j - 1)
    ELSE ChunkRem(2 * r, b, j - 1)

\* the nl limbs of floor(r * Base^nl / b), r < b, the most significant first
RECURSIVE FracLimbs(_, _, _)
FracLimbs(r, b, nl) ==
    IF nl = 0 THEN <<>>
    ELSE <<ChunkQuot(r, b, 13)>> \o FracLimbs(ChunkRem(r, b, 13), b, nl - 1)

Reverse(s) == [i \in 1..Len(s) |-> s[Len(s) + 1 - i]]

\* (r * Base^nl) mod b
RECURSIVE FracRem(_, _, _)
FracRem(r, b, nl) ==
    IF nl = 0 \/ r = 0 THEN r ELSE FracRem(ChunkRem(r, b, 13), b, nl - 1)

\* the binary64 nearest to (-1)^neg * (a / b) * 2^e for naturals a, b with
\* 0 < b < 2^30: the quotient is developed to more than 55 significant bits
\* and rounded once
DblDivNat(neg, a, b, e) ==
    IF a = 0 THEN DblZero(neg)
    ELSE LET nl == 5 + ((Max(0, NatBitLen(b) - NatBitLen(a)) + 12) \div 13)
             Q  == BigNorm(Reverse(FracLimbs(a % b, b, nl)) \o BigFromNat(a \div b))
         IN  DblRound(neg, Q, e - 13 * nl, FracRem(a % b, b, nl) # 0)

\* x = odd * 2^exp for a finite non-zero x
OddPart(x) == BigShr(x.m, BigTrailingZeros(x.m))

OddExp(x) == x.e + BigTrailingZeros(x.m)

\* x / y.  Finite operands are divided exactly and rounded once; the odd
\* parts of both significands must be below 2^30.
DblDiv(x, y) ==
    IF x.k = "nan" \/ y.k = "nan" THEN NaN
    ELSE IF x.k = "inf"
    THEN (IF y.k = "inf" THEN NaN ELSE Infinity(x.neg # y.neg))
    ELSE IF y.k = "inf" THEN DblZero(x.neg # y.neg)
    ELSE IF IsZero(y)
    THEN (IF IsZero(x) THEN NaN ELSE Infinity(x.neg # y.neg))
    ELSE IF IsZero(x) THEN DblZero(x.neg # y.neg)
    ELSE DblDivNat(x.neg # y.neg, BigToNat(OddPart(x)), BigToNat(OddPart(y)),
                   OddExp(x) - OddExp(y))

\* x * y
DblMul(x, y) ==
    IF x.k = "nan" \/ y.k = "nan" THEN NaN
    ELSE IF x.k = "inf" \/ y.k = "inf"
    THEN (IF IsZero(x) \/ IsZero(y) THEN NaN ELSE Infinity(x.neg # y.neg))
    ELSE IF IsZero(x) \/ IsZero(y) THEN DblZero(x.neg # y.neg)
    ELSE DblRound(x.neg # y.neg, BigMul(x.m, y.m), x.e + y.e, FALSE)

DblNeg(x) == IF x.k = "nan" THEN x ELSE [x EXCEPT !.neg = ~x.neg]

\* x + y
DblAdd(x, y) ==
    IF x.k = "nan" \/ y.k = "nan" THEN NaN
    ELSE IF x.k = "inf"
    THEN (IF y.k = "inf" /\ y.neg # x.neg THEN NaN ELSE x)
    ELSE IF y.k = "inf" THEN y
    ELSE IF IsZero(x) THEN (IF IsZero(y) THEN DblZero(x.neg /\ y.neg) ELSE y)
    ELSE IF IsZero(y) THEN x
    ELSE LET e0 == Min(x.e, y.e)
             ax == BigShl(x.m, x.e - e0)
             ay == BigShl(y.m, y.e - e0)
             c  == BigCmp(ax, ay)
         IN  IF x.neg = y.neg THEN DblRound(x.neg, BigAdd(ax, ay), e0, FALSE)
             ELSE IF c = 0 THEN DblZero(FALSE)
             ELSE IF c > 0 THEN DblRound(x.neg, BigSub(ax, ay), e0, FALSE)
             ELSE DblRound(y.neg, BigSub(ay, ax), e0, FALSE)

DblSub(x, y) == DblAdd(x, DblNeg(y))

\* Math.abs
MathAbs(x) == IF x.k = "nan" THEN x ELSE [x EXCEPT !.neg = FALSE]

\* x <= y (false when either is NaN)
DblLeq(x, y) ==
    IF x.k = "nan" \/ y.k = "nan" THEN FALSE
    ELSE IF IsZero(x) /\ IsZero(y) THEN TRUE
    ELSE IF x.k = "inf" THEN (x.neg \/ (y.k = "inf" /\ ~y.neg))
    ELSE IF y.k = "inf" THEN ~y.neg
    ELSE LET d == DblSub(y, x) IN IsZero(d) \/ ~d.neg

\* Math.round: floor(x + 0.5), computed exactly
MathRound(x) ==
    IF x.k # "fin" \/ IsZero(x) \/ x.e >= 0 THEN x
    ELSE LET t    == -x.e
             half == BigShl(<<1>>, t - 1)
             n    == IF x.neg
                     THEN BigShr(BigSub(BigAdd(x.m, half), <<1>>), t)
                     ELSE BigShr(BigAdd(x.m, half), t)
         IN  DblRound(x.neg, n, 0, FALSE)

(***************************************************************************)
(* JavaScript values.  A string is [t |-> "str", s |-> characters], a      *)
(* number of the probe's JSON is [t |-> "num", n |-> integer], and a       *)
(* property the probe left out is undefined.                               *)
(***************************************************************************)
Undefined == [t |-> "undef", s |-> <<>>, n |-> 0]

Str(s) == [t |-> "str", s |-> s, n |-> 0]

Num(n) == [t |-> "num", s |-> <<>>, n |-> n]

\* a === b
StrictEq(a, b) == a.t = b.t /\ a.s = b.s /\ a.n = b.n

UpperLetters ==
    <<"A", "B", "C", "D", "E", "F", "G", "H", "I", "J", "K", "L", "M",
      "N", "O", "P", "Q", "R", "S", "T", "U", "V", "W", "X", "Y", "Z">>

LowerLetters ==
    <<"a", "b", "c", "d", "e", "f", "g", "h", "i", "j", "k", "l", "m",
      "n", "o", "p", "q", "r", "s", "t", "u", "v", "w", "x", "y", "z">>

Translate(c, from, to) ==
    IF \E i \in 1..Len(from) : from[i] = c
    THEN to[CHOOSE i \in 1..Len(from) : from[i] = c]
    ELSE c

\* String.prototype.toLowerCase
ToLowerCase(s) == [i \in 1..Len(s) |-> Translate(s[i], UpperLetters, LowerLetters)]

\* String.prototype.toUpperCase
ToUpperCase(s) == [i \in 1..Len(s) |-> Translate(s[i], LowerLetters, UpperLetters)]

\* String.prototype.includes
Includes(s, sub) ==
    \E i \in 0..(Len(s) - Len(sub)) : SubSeq(s, i + 1, i + Len(sub)) = sub

Digits == <<"0", "1", "2", "3", "4", "5", "6", "7", "8", "9">>

IsDigit(c) == \E d \in 1..Len(Digits) : Digits[d] = c

DigitVal(c) == (CHOOSE d \in 1..Len(Digits) : Digits[d] = c) - 1

\* the number of digits of s from position i on
RECURSIVE DigitRun(_, _)
DigitRun(s, i) ==
    IF i <= Len(s) /\ IsDigit(s[i]) THEN 1 + DigitRun(s, i + 1) ELSE 0

\* the value of the decimal digits s[i..j], below 2^30
RECURSIVE DigitsToNat(_, _, _)
DigitsToNat(s, i, j) ==
    IF j < i THEN 0 ELSE 10 * DigitsToNat(s, i, j - 1) + DigitVal(s[j])

HasSign(s) == Len(s) > 0 /\ s[1] \in {"-", "+"}

\* parseInt(v): the longest prefix [sign] digits; NaN when there is no digit
\* (a text with leading white space or a 0x prefix is outside the model)
ParseInt(v) ==
    IF v.t # "str" THEN NaN
    ELSE LET first == IF HasSign(v.s) THEN 2 ELSE 1
             n     == DigitRun(v.s, first)
             neg   == HasSign(v.s) /\ v.s[1] = "-"
         IN  IF n = 0 THEN NaN
             ELSE DblRound(neg, BigFromNat(DigitsToNat(v.s, first, first + n - 1)),
                           0, FALSE)

\* parseFloat(v): the longest prefix [sign] digits [. digits], correctly
\* rounded; NaN when there is no digit (exponents, "Infinity" and leading
\* white space are outside the model)
ParseFloat(v) ==
    IF v.t # "str" THEN NaN
    ELSE LET first  == IF HasSign(v.s) THEN 2 ELSE 1
             ni     == DigitRun(v.s, first)
             dot    == first + ni
             hasDot == dot <= Len(v.s) /\ v.s[dot] = "."
             nf     == IF hasDot THEN DigitRun(v.s, dot + 1) ELSE 0
             neg    == HasSign(v.s) /\ v.s[1] = "-"
         IN  IF ni = 0 /\ nf = 0 THEN NaN
             ELSE DblDivNat(neg,
                            DigitsToNat(v.s, first, first + ni - 1) * 10^nf
                              + DigitsToNat(v.s, dot + 1, dot + nf),
                            10^nf, 0)

(***************************************************************************)
(* eval(text), for the texts the probe's r_frame_rate takes in this model: *)
(* the empty program, and decimal integer literals joined by / and *.      *)
(* eval returns a value that is not a string unchanged, returns undefined  *)
(* for the empty program, evaluates the arithmetic left to right in        *)
(* binary64, treats // as the start of a comment, and throws (SyntaxError, *)
(* ReferenceError) on the other texts of the model: an operator without    *)
(* operand, an unbound identifier.  Texts that begin with "/" (a regular   *)
(* expression literal), literals with a leading zero (legacy octal) and    *)
(* code with effects are outside the model.                                *)
(***************************************************************************)
EvalValue(v) == [t |-> "value", v |-> v]

EvalUndefined == [t |-> "undefined", v |-> NaN]

EvalThrow == [t |-> "throw", v |-> NaN]

RECURSIVE EvalRest(_, _, _)
EvalRest(acc, s, i) ==
    IF i > Len(s) THEN EvalValue(acc)
    ELSE IF s[i] = "/" /\ i < Len(s) /\ s[i + 1] = "/" THEN EvalValue(acc)
    ELSE IF s[i] \notin {"/", "*"} THEN EvalThrow
    ELSE LET n   == DigitRun(s, i + 1)
             lit == DblFromNat(DigitsToNat(s, i + 1, i + n))
         IN  IF n = 0 THEN EvalThrow
             ELSE IF s[i] = "/" THEN EvalRest(DblDiv(acc, lit), s, i + 1 + n)
             ELSE EvalRest(DblMul(acc, lit), s, i + 1 + n)

Eval(v) ==
    IF v.t # "str" \/ v.s = <<>> THEN EvalUndefined
    ELSE LET n == DigitRun(v.s, 1)
         IN  IF n = 0 THEN EvalThrow
             ELSE EvalRest(DblFromNat(DigitsToNat(v.s, 1, n)), v.s, n + 1)

\* ToNumber of the result of eval, as the arithmetic on frameRate applies it
ToNumber(ev) == IF ev.t = "value" THEN ev.v ELSE NaN

\* ToBoolean of a number: NaN and zero are falsy
Truthy(x) == x.k # "nan" /\ ~IsZero(x)

(***************************************************************************)
(* analyzeVideoWithFFmpeg: the ffprobe callback.  p is what ffprobe hands  *)
(* to the callback: p.result is "err" when it reports an error, and        *)
(* otherwise the metadata (p.hasVideo: a stream of codec_type "video"      *)
(* exists).  The promise resolves with the descriptor or rejects with a    *)
(* message; evaluated records that a text reached eval.  The descriptor's  *)
(* profile and bitRate take no part in the validation and are left out.    *)
(* Messages are written without their accents and without the text of the  *)
(* underlying error.                                                       *)
(***************************************************************************)
NoInfo ==
    [duration |-> NaN, width |-> Undefined, height |-> Undefined,
     frameRate |-> NaN, frameCount |-> NaN, codec |-> Undefined,
     format |-> Undefined]

Reject(message, evaluated) ==
    [outcome |-> "reject", message |-> message, videoInfo |-> NoInfo,
     evaluated |-> evaluated]

Resolve(videoInfo, evaluated) ==
    [outcome |-> "resolve", message |-> "", videoInfo |-> videoInfo,
     evaluated |-> evaluated]

\* Math.round(x * 100) / 100
Round2(x) == DblDiv(MathRound(DblMul(x, DblFromNat(100))), DblFromNat(100))

\* parseInt(videoStream.nb_frames) || Math.round(duration * frameRate)
FrameCountOf(nb_frames, duration, frameRate) ==
    IF Truthy(ParseInt(nb_frames)) THEN ParseInt(nb_frames)
    ELSE MathRound(DblMul(duration, frameRate))

VideoInfoOf(p, duration, frameRate) ==
    [duration   |-> Round2(duration),
     width      |-> p.width,
     height     |-> p.height,
     frameRate  |-> Round2(frameRate),
     frameCount |-> FrameCountOf(p.nb_frames, duration, frameRate),
     codec      |-> p.codec_name,
     format     |-> p.format_name]

analyzeVideoWithFFmpeg(p) ==
    IF p.result = "err" THEN Reject("Erreur FFprobe", FALSE)
    ELSE IF ~p.hasVideo THEN Reject("Aucun flux video trouve", FALSE)
    ELSE LET duration == ParseFloat(p.duration)
             ev       == Eval(p.r_frame_rate)
             isText   == p.r_frame_rate.t = "str"
         IN  IF ev.t = "throw" THEN Reject("Erreur parsing metadonnees", isText)
             ELSE Resolve(VideoInfoOf(p, duration, ToNumber(ev)), isText)

(***************************************************************************)
(* validateVideoSpecs and its helpers.                                     *)
(***************************************************************************)
CriteriaFrameRate == 24

CriteriaFrameCount == 144

maxFileSize == 100 * 1024 * 1024

resolutions == <<[width |-> 1920, height |-> 810], [width |-> 3840, height |-> 1620]>>

allowedFormats == << <<"m", "p", "4">>, <<"m", "o", "v">>,
                     <<"q", "u", "i", "c", "k", "t", "i", "m", "e">> >>

allowedCodecs == << <<"h", "2", "6", "4">>, <<"h", "e", "v", "c">>,
                    <<"h", "2", "6", "5">> >>

H264 == <<"H", ".", "2", "6", "4">>

H265 == <<"H", ".", "2", "6", "5">>

\* the entries of codecMap, in the order Object.entries yields them
codecMap ==
    << [key |-> <<"h", "2", "6", "4">>, value |-> H264],
       [key |-> <<"a", "v", "c">>,      value |-> H264],
       [key |-> <<"a", "v", "c", "1">>, value |-> H264],
       [key |-> <<"h", "e", "v", "c">>, value |-> H265],
       [key |-> <<"h", "2", "6", "5">>, value |-> H265],
       [key |-> <<"h", "e", "v", "1">>, value |-> H265],
       [key |-> <<"h", "v", "c", "1">>, value |-> H265] >>

\* getCodecName(codec), codec a string
getCodecName(codec) ==
    LET lowerCodec == ToLowerCase(codec)
        hits       == {i \in 1..Len(codecMap) : Includes(lowerCodec, codecMap[i].key)}
    IN  IF hits # {}
        THEN codecMap[CHOOSE i \in hits : \A j \in hits : i <= j].value
        ELSE ToUpperCase(codec)

\* getFormatName(format, mimeType), both strings
getFormatName(format, mimeType) ==
    IF Includes(ToLowerCase(format), <<"m", "p", "4">>)
       \/ Includes(mimeType, <<"m", "p", "4">>)
    THEN <<"M", "P", "4">>
    ELSE IF Includes(ToLowerCase(format), <<"m", "o", "v">>)
            \/ Includes(ToLowerCase(format),
                        <<"q", "u", "i", "c", "k", "t", "i", "m", "e">>)
            \/ Includes(mimeType, <<"q", "u", "i", "c", "k", "t", "i", "m", "e">>)
    THEN <<"M", "O", "V">>
    ELSE ToUpperCase(format)

\* fileSize.valid with the limit itself excluded
FileSizeValidExclusive(fileSize) == fileSize < maxFileSize

\* fileSize.valid
FileSizeValid(fileSize) == fileSize <= maxFileSize

\* format.valid, format and mimeType strings
FormatValid(format, mimeType) ==
    \E i \in 1..Len(allowedFormats) :
        \/ Includes(ToLowerCase(format), allowedFormats[i])
        \/ Includes(mimeType, allowedFormats[i])

\* resolution.valid with width and height matched independently of each other
ResolutionValidAnyPair(width, height) ==
    /\ \E i \in 1..Len(resolutions) : StrictEq(Num(resolutions[i].width), width)
    /\ \E i \in 1..Len(resolutions) : StrictEq(Num(resolutions[i].height), height)

\* resolution.valid
ResolutionValid(width, height) ==
    \E i \in 1..Len(resolutions) :
        /\ StrictEq(Num(resolutions[i].width), width)
        /\ StrictEq(Num(resolutions[i].height), height)

\* frameRate.valid: Math.abs(videoInfo.frameRate - criteria.frameRate) <= 0.1
FrameRateValid(frameRate) ==
    DblLeq(MathAbs(DblSub(frameRate, DblFromNat(CriteriaFrameRate))),
           DblDivNat(FALSE, 1, 10, 0))

\* frameCount.valid with a tolerance of one frame
FrameCountValidWithinOne(frameCount) ==
    DblLeq(MathAbs(DblSub(frameCount, DblFromNat(CriteriaFrameCount))),
           DblFromNat(1))

\* frameCount.valid: Math.abs(videoInfo.frameCount - criteria.frameCount) <= 2
FrameCountValid(frameCount) ==
    DblLeq(MathAbs(DblSub(frameCount, DblFromNat(CriteriaFrameCount))),
           DblFromNat(2))

\* codec.valid, codec a string
CodecValid(codec) ==
    \E i \in 1..Len(allowedCodecs) :
        LET lowerVideoCodec    == ToLowerCase(codec)
            lowerCriteriaCodec == ToLowerCase(allowedCodecs[i])
        IN  \/ Includes(lowerVideoCodec, lowerCriteriaCodec)
            \/ Includes(lowerVideoCodec, <<"a", "v", "c">>)
            \/ Includes(lowerVideoCodec, <<"h", "e", "v", "c">>)

\* results.overall computed without the fileSize criterion
OverallWithoutFileSize(results) ==
    \A key \in DOMAIN results \ {"fileSize"} : key = "overall" \/ results[key].valid

\* results.overall: every key but overall has a true valid
Overall(results) ==
    \A key \in DOMAIN results : key = "overall" \/ results[key].valid

NoResults ==
    [fileSize   |-> [valid |-> FALSE, value |-> <<>>],
     format     |-> [valid |-> FALSE, value |-> <<>>],
     resolution |-> [valid |-> FALSE, value |-> <<>>],
     frameRate  |-> [valid |-> FALSE, value |-> <<>>],
     frameCount |-> [valid |-> FALSE, value |-> <<>>],
     codec      |-> [valid |-> FALSE, value |-> <<>>],
     overall    |-> FALSE]

\* The criteria, in the order the object literal evaluates them.  The
\* display values of fileSize, resolution, frameRate and frameCount are
\* formatted numbers that nothing reads back; they are left empty.
Criteria(videoInfo) ==
    [fileSize   |-> [valid |-> FileSizeValid(videoInfo.fileSize), value |-> <<>>],
     format     |-> [valid |-> FormatValid(videoInfo.format.s, videoInfo.mimeType),
                     value |-> getFormatName(videoInfo.format.s, videoInfo.mimeType)],
     resolution |-> [valid |-> ResolutionValid(videoInfo.width, videoInfo.height),
                     value |-> <<>>],
     frameRate  |-> [valid |-> FrameRateValid(videoInfo.frameRate), value |-> <<>>],
     frameCount |-> [valid |-> FrameCountValid(videoInfo.frameCount), value |-> <<>>],
     codec      |-> [valid |-> CodecValid(videoInfo.codec.s),
                     value |-> getCodecName(videoInfo.codec.s)]]

\* validateVideoSpecs(videoInfo): videoInfo.format.toLowerCase() and
\* videoInfo.codec.toLowerCase() throw a TypeError on undefined
validateVideoSpecs(videoInfo) ==
    IF videoInfo.format.t # "str" \/ videoInfo.codec.t # "str"
    THEN [t |-> "throw", results |-> NoResults]
    ELSE LET results == Criteria(videoInfo)
         IN  [t |-> "return",
              results |-> [key \in DOMAIN results \cup {"overall"} |->
                              IF key = "overall" THEN Overall(results)
                              ELSE results[key]]]

(***************************************************************************)
(* The uploads and the probe outcomes the requests are drawn from.  Each   *)
(* input differs from the compliant baseline in one property (the          *)
(* container format and the MIME type, which decide one criterion          *)
(* together, vary together).                                               *)
(***************************************************************************)
BaseProbe ==
    [result       |-> "ok",
     hasVideo     |-> TRUE,
     r_frame_rate |-> Str(<<"2", "4", "/", "1">>),
     nb_frames    |-> Str(<<"1", "4", "4">>),
     duration     |-> Str(<<"6", ".", "0", "0", "0", "0", "0", "0">>),
     width        |-> Num(1920),
     height       |-> Num(810),
     codec_name   |-> Str(<<"h", "2", "6", "4">>),
     format_name  |-> Str(<<"m", "o", "v", ",", "m", "p", "4", ",", "m", "4", "a", ",", "3", "g", "p", ",", "3", "g", "2", ",", "m", "j", "2">>)]

BaseUpload ==
    [hasFile  |-> TRUE,
     size     |-> 1024 * 1024,
     mimetype |-> <<"v", "i", "d", "e", "o", "/", "m", "p", "4">>,
     ext      |-> <<".", "m", "p", "4">>]

\* r_frame_rate: ratios, and texts that are no ratio
RateTexts ==
    {Str(<<"2", "4", "0", "0", "0", "/", "1", "0", "0", "1">>),
     Str(<<"2", "3", "9", "/", "1", "0">>),
     Str(<<"2", "4", "1", "/", "1", "0">>),
     Str(<<"2", "3", "8", "9", "/", "1", "0", "0">>),
     Str(<<"2", "4", "1", "1", "/", "1", "0", "0">>),
     Str(<<"2", "5", "/", "1">>),
     Str(<<"2", "4">>),
     Str(<<>>),
     Str(<<"2", "4", "/", "0">>),
     Str(<<"0", "/", "0">>),
     Str(<<"2", "4", "*", "1">>),
     Str(<<"a">>),
     Str(<<"2", "4", "/">>)} \cup {Undefined}

FrameCountTexts ==
    {Str(<<"1", "4", "2">>),
     Str(<<"1", "4", "6">>),
     Str(<<"1", "4", "1">>),
     Str(<<"1", "4", "7">>),
     Str(<<"0">>),
     Str(<<"-", "5">>),
     Str(<<"N", "/", "A">>)} \cup {Undefined}

DurationTexts ==
    {Str(<<"5", ".", "9", "5", "8", "3", "3", "3">>),
     Str(<<"6", ".", "0", "0", "6", "0", "0", "0">>),
     Str(<<"0", ".", "0", "0", "0", "0", "0", "0">>)} \cup {Undefined}

Dimensions ==
    {<<Num(3840), Num(1620)>>, <<Num(1920), Num(1620)>>, <<Num(3840), Num(810)>>,
     <<Num(960), Num(405)>>, <<Num(1920), Num(1080)>>, <<Num(1920), Num(811)>>,
     <<Num(0), Num(0)>>, <<Undefined, Undefined>>}

CodecNames ==
    {Str(<<"a", "v", "c", "1">>),
     Str(<<"h", "v", "c", "1">>),
     Str(<<"h", "e", "v", "1">>),
     Str(<<"h", "e", "v", "c">>),
     Str(<<"h", "2", "6", "5">>),
     Str(<<"H", "2", "6", "4">>),
     Str(<<"v", "p", "9">>)} \cup {Undefined}

FormatNames ==
    {Str(<<"a", "v", "i">>),
     Str(<<"m", "a", "t", "r", "o", "s", "k", "a", ",", "w", "e", "b", "m">>),
     Str(<<"M", "O", "V">>)} \cup {Undefined}

\* file sizes around the validation limit and above the upload limit
FileSizes == {0, 100 * 1024 * 1024 - 1, 100 * 1024 * 1024, 100 * 1024 * 1024 + 1,
              150 * 1024 * 1024, 150 * 1024 * 1024 + 1}

\* MIME type and extension of the upload
FileTypes ==
    {<<<<"v", "i", "d", "e", "o", "/", "q", "u", "i", "c", "k", "t", "i", "m", "e">>, <<".", "m", "o", "v">>>>,
     <<<<"v", "i", "d", "e", "o", "/", "x", "-", "m", "s", "v", "i", "d", "e", "o">>, <<".", "a", "v", "i">>>>,
     <<<<"a", "p", "p", "l", "i", "c", "a", "t", "i", "o", "n", "/", "o", "c", "t", "e", "t", "-", "s", "t", "r", "e", "a", "m">>, <<".", "m", "p", "4">>>>,
     <<<<"t", "e", "x", "t", "/", "p", "l", "a", "i", "n">>, <<".", "t", "x", "t">>>>}

ProbeInputs ==
    {BaseProbe}
    \cup {[BaseProbe EXCEPT !.result = x] : x \in {"err", "hang"}}
    \cup {[BaseProbe EXCEPT !.hasVideo = FALSE]}
    \cup {[BaseProbe EXCEPT !.r_frame_rate = x] : x \in RateTexts}
    \cup {[BaseProbe EXCEPT !.nb_frames = x] : x \in FrameCountTexts}
    \cup {[BaseProbe EXCEPT !.duration = x] : x \in DurationTexts}
    \cup {[BaseProbe EXCEPT !.width = x[1], !.height = x[2]] : x \in Dimensions}
    \cup {[BaseProbe EXCEPT !.codec_name = x] : x \in CodecNames}
    \cup {[BaseProbe EXCEPT !.format_name = x] : x \in FormatNames}

UploadInputs ==
    {BaseUpload}
    \cup {[BaseUpload EXCEPT !.hasFile = FALSE]}
    \cup {[BaseUpload EXCEPT !.size = x] : x \in FileSizes}
    \cup {[BaseUpload EXCEPT !.mimetype = x[1], !.ext = x[2]] : x \in FileTypes}

Inputs ==
    {[upload |-> BaseUpload, probe |-> p] : p \in ProbeInputs}
    \cup {[upload |-> u, probe |-> BaseProbe] : u \in UploadInputs}
    \cup {[upload |-> [BaseUpload EXCEPT !.mimetype = x[1], !.ext = x[2]],
           probe  |-> [BaseProbe EXCEPT !.format_name = f]] :
             x \in FileTypes, f \in FormatNames}

allowedTypes == {<<"v", "i", "d", "e", "o", "/", "m", "p", "4">>,
                 <<"v", "i", "d", "e", "o", "/", "q", "u", "i", "c", "k", "t", "i", "m", "e">>,
                 <<"v", "i", "d", "e", "o", "/", "x", "-", "m", "s", "v", "i", "d", "e", "o">>}

allowedExtensions == {<<".", "m", "p", "4">>, <<".", "m", "o", "v">>, <<".", "a", "v", "i">>}

(***************************************************************************)
(* The server.  Each request of Reqs is one POST /analyze-video: it is     *)
(* "new" until the upload has been received, "probing" while ffprobe runs  *)
(* on its temp file, and "responded" once the response has been sent.  The *)
(* temp directory holds the temp files with their modification times; the  *)
(* clock counts the minutes, the period of the sweep.  A temp file name    *)
(* (time stamp and random suffix) is taken to be unique to its request.    *)
(***************************************************************************)
VARIABLES input, req, files, now

vars == <<input, req, files, now>>

Reqs == {"r1", "r2"}

\* the minutes the clock runs for
MaxTime == 7

\* the sweep removes files older than 5 minutes
SweepAge == 5

\* multer's limits.fileSize
uploadLimit == 150 * 1024 * 1024

\* the second request runs beside the first with the baseline upload and a
\* probe that answers, fails or never answers
OtherInputs ==
    {[upload |-> BaseUpload, probe |-> [BaseProbe EXCEPT !.result = x]] :
        x \in {"ok", "err", "hang"}}

NoResponse ==
    [status |-> 0, success |-> FALSE, error |-> "", details |-> "",
     videoInfo |-> NoInfo, validation |-> NoResults]

ErrorResponse(status, error, details) ==
    [status |-> status, success |-> FALSE, error |-> error, details |-> details,
     videoInfo |-> NoInfo, validation |-> NoResults]

SuccessResponse(videoInfo, validation) ==
    [status |-> 200, success |-> TRUE, error |-> "", details |-> "",
     videoInfo |-> videoInfo, validation |-> validation]

NewRequest ==
    [pc |-> "new", wrote |-> FALSE, evaluated |-> FALSE, validated |-> FALSE,
     response |-> NoResponse]

Init ==
    /\ input \in {f \in [Reqs -> Inputs] :
                    \A r \in Reqs \ {"r1"} : f[r] \in OtherInputs}
    /\ req = [r \in Reqs |-> NewRequest]
    /\ files = {}
    /\ now = 0

\* multer's fileFilter
fileFilter(upload) ==
    upload.mimetype \in allowedTypes \/ upload.ext \in allowedExtensions

Respond(r, response) ==
    req' = [req EXCEPT ![r].pc = "responded", ![r].response = response]

\* the upload is refused before the handler runs: the error middleware answers
UploadRejected(r) ==
    /\ req[r].pc = "new"
    /\ input[r].upload.hasFile
    /\ IF ~fileFilter(input[r].upload)
       THEN Respond(r, ErrorResponse(500, "Type de fichier non supporte", ""))
       ELSE /\ input[r].upload.size > uploadLimit
            /\ Respond(r, ErrorResponse(400, "Fichier trop volumineux (max 150MB)", ""))
    /\ UNCHANGED <<input, files, now>>

\* the handler without req.file
NoFile(r) ==
    /\ req[r].pc = "new"
    /\ ~input[r].upload.hasFile
    /\ Respond(r, ErrorResponse(400, "Aucun fichier video fourni", ""))
    /\ UNCHANGED <<input, files, now>>

\* fs.writeFileSync(tempFilePath, req.file.buffer)
WriteFileSync(fs, name, t) ==
    {f \in fs : f.name # name} \cup {[name |-> name, mtime |-> t]}

\* fs.existsSync(tempFilePath)
ExistsSync(fs, name) == \E f \in fs : f.name = name

\* fs.unlinkSync(tempFilePath), the file existing
UnlinkSync(fs, name) == {f \in fs : f.name # name}

\* the handler up to its await: the temp file is written and ffprobe started
StartProbe(r) ==
    /\ req[r].pc = "new"
    /\ input[r].upload.hasFile
    /\ fileFilter(input[r].upload)
    /\ input[r].upload.size <= uploadLimit
    /\ files' = WriteFileSync(files, r, now)
    /\ req' = [req EXCEPT ![r].pc = "probing", ![r].wrote = TRUE]
    /\ UNCHANGED <<input, now>>

\* fullVideoInfo, without fileName
FullVideoInfo(videoInfo, upload) ==
    [duration   |-> videoInfo.duration,
     width      |-> videoInfo.width,
     height     |-> videoInfo.height,
     frameRate  |-> videoInfo.frameRate,
     frameCount |-> videoInfo.frameCount,
     codec      |-> videoInfo.codec,
     format     |-> videoInfo.format,
     fileSize   |-> upload.size,
     mimeType   |-> upload.mimetype]

\* a catch block that leaves the temp file where it is
CatchWithoutCleanup(fs, name) == fs

\* the catch block's cleanup: the temp file is removed if it is still there
CatchCleanup(fs, name) ==
    IF ExistsSync(fs, name) THEN UnlinkSync(fs, name) ELSE fs

HandlerError(details) ==
    ErrorResponse(500, "Erreur lors de l'analyse de la video", details)

\* What the ffprobe callback and the validation compute for an input: how
\* the promise settles and, when it resolves, fullVideoInfo and what
\* validateVideoSpecs does with it.  Neither reads the server's state.
Computed(i) ==
    LET settled       == analyzeVideoWithFFmpeg(i.probe)
        fullVideoInfo == FullVideoInfo(settled.videoInfo, i.upload)
    IN  [settled       |-> settled,
         fullVideoInfo |-> fullVideoInfo,
         validation    |-> IF settled.outcome = "resolve"
                           THEN validateVideoSpecs(fullVideoInfo)
                           ELSE [t |-> "none", results |-> NoResults]]

\* Computed, worked out once for every input of the model
ComputedTable == {<<i, Computed(i)>> : i \in Inputs}

ComputedFor(i) == (CHOOSE c \in ComputedTable : c[1] = i)[2]

\* The handler from its await on, given what was computed for its input:
\* what it leaves in the temp directory, whether it called
\* validateVideoSpecs, and the response it sends.
AfterProbe(c, fs, name) ==
    IF c.settled.outcome = "reject"
    THEN [files |-> CatchCleanup(fs, name), validated |-> FALSE,
          response |-> HandlerError(c.settled.message)]
    ELSE IF ~ExistsSync(fs, name)
    THEN [files |-> CatchCleanup(fs, name), validated |-> FALSE,
          response |-> HandlerError("ENOENT")]
    ELSE IF c.validation.t = "throw"
    THEN [files |-> CatchCleanup(UnlinkSync(fs, name), name), validated |-> TRUE,
          response |-> HandlerError("TypeError")]
    ELSE [files |-> UnlinkSync(fs, name), validated |-> TRUE,
          response |-> SuccessResponse(c.fullVideoInfo, c.validation.results)]

\* ffprobe calls back: the promise settles and the handler runs to its end
ProbeDone(r) ==
    /\ req[r].pc = "probing"
    /\ input[r].probe.result # "hang"
    /\ \E c \in {ComputedFor(input[r])} :
         \E after \in {AfterProbe(c, files, r)} :
            /\ files' = after.files
            /\ req' = [req EXCEPT ![r].pc = "responded",
                                  ![r].evaluated = c.settled.evaluated,
                                  ![r].validated = after.validated,
                                  ![r].response = after.response]
    /\ UNCHANGED <<input, now>>

\* the files the sweep keeps at time t
Sweep(fs, t) == {f \in fs : ~(t - f.mtime > SweepAge)}

\* a minute passes and the interval callback sweeps the temp directory
SweepTimer ==
    /\ now < MaxTime
    /\ now' = now + 1
    /\ files' = Sweep(files, now + 1)
    /\ UNCHANGED <<input, req>>

Next ==
    \/ \E r \in Reqs : UploadRejected(r)
    \/ \E r \in Reqs : NoFile(r)
    \/ \E r \in Reqs : StartProbe(r)
    \/ \E r \in Reqs : ProbeDone(r)
    \/ SweepTimer

Spec == Init /\ [][Next]_vars

TypeOK ==
    /\ now \in 0..MaxTime
    /\ \A r \in Reqs : req[r].pc \in {"new", "probing", "responded"}

(***************************************************************************)
(* Properties.  A request whose response has success = TRUE is one on      *)
(* which validateVideoSpecs returned: its response carries the descriptor  *)
(* the validation read and the verdict it returned.                        *)
(***************************************************************************)
CriteriaKeys == {"resolution", "format", "fileSize", "frameRate", "frameCount", "codec"}

Returned(r) == req[r].pc = "responded" /\ req[r].response.success

\* the criteria of the verdict v that are not valid
Invalid(v) == {k \in CriteriaKeys : ~v[k].valid}

\* C1: on every descriptor on which validateVideoSpecs returns, overall is
\* true iff all six criteria are valid; a descriptor that fails fileSize
\* alone has overall false.
C1_OverallIffAllSix ==
    \A r \in Reqs :
        Returned(r) =>
            LET v == req[r].response.validation
            IN  /\ v.overall = (\A k \in CriteriaKeys : v[k].valid)
                /\ (Invalid(v) = {"fileSize"} => v.overall = FALSE)

\* a verdict was returned in which fileSize is the only invalid criterion
C1_Witness ==
    \E r \in Reqs :
        /\ Returned(r)
        /\ Invalid(req[r].response.validation) = {"fileSize"}
        /\ req[r].response.validation.overall = FALSE

\* s is digits "/" digits
IsRatio(s) ==
    LET n == DigitRun(s, 1)
    IN  /\ n > 0
        /\ n + 1 <= Len(s)
        /\ s[n + 1] = "/"
        /\ DigitRun(s, n + 2) > 0
        /\ n + 1 + DigitRun(s, n + 2) = Len(s)

\* the inputs whose probe answered with a video stream and an r_frame_rate
\* text that is not of the form integer/integer
NotRatioInputs ==
    {i \in Inputs : /\ i.probe.result = "ok"
                    /\ i.probe.hasVideo
                    /\ i.probe.r_frame_rate.t = "str"
                    /\ ~IsRatio(i.probe.r_frame_rate.s)}

\* C2: for every r_frame_rate that is not integer/integer,
\* analyzeVideoWithFFmpeg rejects with the metadata error and the text never
\* reaches eval.
C2_OnlyRatiosAccepted ==
    \A r \in Reqs :
        (req[r].pc = "responded" /\ req[r].wrote /\ input[r] \in NotRatioInputs) =>
            LET settled == ComputedFor(input[r]).settled
            IN  /\ settled.outcome = "reject"
                /\ settled.message = "Erreur parsing metadonnees"
                /\ ~req[r].evaluated

\* C3: once the response of a request that wrote its temp file has been
\* sent, the temp file does not exist, whatever path the handler took.
C3_TempFileRemoved ==
    \A r \in Reqs :
        (req[r].pc = "responded" /\ req[r].wrote) => ~ExistsSync(files, r)

\* one request ended on a metadata parse failure and the other on success,
\* both after writing their temp files, and the temp directory is empty
C3_Witness ==
    /\ req["r1"].wrote /\ req["r1"].pc = "responded"
    /\ req["r1"].response = HandlerError("Erreur parsing metadonnees")
    /\ req["r2"].wrote /\ Returned("r2")
    /\ files = {}

\* 23.9 and 24.1, the ends of the range 24 +/- 0.1
LowestRate == DblDivNat(FALSE, 239, 10, 0)

HighestRate == DblDivNat(FALSE, 241, 10, 0)

\* the inputs whose descriptor has a frame rate from 23.9 to 24.1, both
\* included
InRangeInputs ==
    {i \in Inputs :
        LET settled == ComputedFor(i).settled
        IN  /\ settled.outcome = "resolve"
            /\ DblLeq(LowestRate, settled.videoInfo.frameRate)
            /\ DblLeq(settled.videoInfo.frameRate, HighestRate)}

\* C4: the frameRate criterion is valid exactly when the descriptor's frame
\* rate lies from 23.9 to 24.1, both boundaries included.
C4_FrameRateWithinTenth ==
    \A r \in Reqs :
        Returned(r) =>
            (req[r].response.validation.frameRate.valid <=> input[r] \in InRangeInputs)

\* C5: codec avc1 is valid and shown as H.264, hvc1 is valid and shown as
\* H.265, vp9 is invalid and shown as VP9.
C5_CodecAliases ==
    \A r \in Reqs :
        Returned(r) =>
            LET codec == req[r].response.videoInfo.codec
                v     == req[r].response.validation.codec
            IN  /\ codec = Str(<<"a", "v", "c", "1">>) => (v.valid /\ v.value = H264)
                /\ codec = Str(<<"h", "v", "c", "1">>) => (v.valid /\ v.value = H265)
                /\ codec = Str(<<"v", "p", "9">>) => (~v.valid /\ v.value = <<"V", "P", "9">>)

\* C6: validateVideoSpecs never fails: whenever the handler calls it, it
\* returns a verdict with six boolean criteria, and a missing width, height,
\* codec or format makes its criterion invalid.
C6_ValidationTotal ==
    \A r \in Reqs :
        req[r].validated =>
            /\ Returned(r)
            /\ LET info == req[r].response.videoInfo
                   v    == req[r].response.validation
               IN  /\ \A k \in CriteriaKeys : v[k].valid \in BOOLEAN
                   /\ (info.width = Undefined \/ info.height = Undefined)
                        => ~v.resolution.valid
                   /\ info.codec = Undefined => ~v.codec.valid
                   /\ info.format = Undefined => ~v.format.valid

FinitePositive(x) == x.k = "fin" /\ ~IsZero(x) /\ ~x.neg

\* the inputs whose probe answered without a video stream, or with a
\* duration or a frame-rate ratio that is no finite positive number
MalformedInputs ==
    {i \in Inputs :
        /\ i.probe.result = "ok"
        /\ \/ ~i.probe.hasVideo
           \/ ~FinitePositive(ParseFloat(i.probe.duration))
           \/ ~FinitePositive(ToNumber(Eval(i.probe.r_frame_rate)))}

\* C7: a request whose probe output is malformed ends with an error
\* response, and validateVideoSpecs is not called for it.
C7_NoValidationOfMalformed ==
    \A r \in Reqs :
        (req[r].pc = "responded" /\ req[r].wrote /\ input[r] \in MalformedInputs) =>
            (~req[r].response.success /\ ~req[r].validated)

\* C8: an accepted request is never left without a way to its response (the
\* wait on the probe is bounded), and a request whose probe failed or did
\* not complete ends with an error response that carries neither descriptor
\* nor verdict.
C8_AlwaysAnswered ==
    \A r \in Reqs :
        /\ req[r].pc = "probing" => ENABLED ProbeDone(r)
        /\ (req[r].pc = "responded" /\ req[r].wrote /\ input[r].probe.result # "ok") =>
              /\ ~req[r].response.success
              /\ req[r].response.videoInfo = NoInfo
              /\ req[r].response.validation = NoResults

\* C9: the resolution criterion is valid iff (width, height) is exactly
\* (1920, 810) or exactly (3840, 1620).
C9_ResolutionExactPairs ==
    \A r \in Reqs :
        Returned(r) =>
            LET info == req[r].response.videoInfo
            IN  req[r].response.validation.resolution.valid
                  <=> \/ (info.width = Num(1920) /\ info.height = Num(810))
                      \/ (info.width = Num(3840) /\ info.height = Num(1620))

\* a mixed pair was judged invalid beside an allowed pair judged valid
C9_Witness ==
    /\ Returned("r1")
    /\ req["r1"].response.videoInfo.width = Num(1920)
    /\ req["r1"].response.videoInfo.height = Num(1620)
    /\ ~req["r1"].response.validation.resolution.valid
    /\ Returned("r2")
    /\ req["r2"].response.validation.resolution.valid

\* C10: the fileSize criterion is valid iff the file has at most 104857600
\* bytes.
C10_FileSizeAtMostLimit ==
    \A r \in Reqs :
        Returned(r) =>
            (req[r].response.validation.fileSize.valid
               <=> req[r].response.videoInfo.fileSize <= 104857600)

\* a file of exactly 104857600 bytes was judged valid
C10_Witness ==
    \E r \in Reqs :
        /\ Returned(r)
        /\ req[r].response.videoInfo.fileSize = 104857600
        /\ req[r].response.validation.fileSize.valid

\* the integers from 142 to 146, as numbers
CountsWithinTwo == {DblFromNat(n) : n \in 142..146}

\* C11: the frameCount criterion is valid iff the descriptor's frame count
\* is an integer from 142 to 146, both included.
C11_FrameCountWithinTwo ==
    \A r \in Reqs :
        Returned(r) =>
            (req[r].response.validation.frameCount.valid
               <=> req[r].response.videoInfo.frameCount \in CountsWithinTwo)

\* a count of 146 was judged valid beside a count of 144
C11_Witness ==
    /\ Returned("r1")
    /\ req["r1"].response.videoInfo.frameCount = DblFromNat(146)
    /\ req["r1"].response.validation.frameCount.valid
    /\ Returned("r2")
    /\ req["r2"].response.videoInfo.frameCount = DblFromNat(144)

\* the frame count the descriptor of probe output p is to hold: the explicit
\* count when it is present and greater than 0, and otherwise
\* round(duration * frameRate) of the unrounded duration and frame rate
SpecifiedFrameCount(p) ==
    LET explicit == ParseInt(p.nb_frames)
    IN  IF FinitePositive(explicit) THEN explicit
        ELSE MathRound(DblMul(ParseFloat(p.duration), ToNumber(Eval(p.r_frame_rate))))

\* the inputs whose descriptor holds the specified frame count
SpecifiedCountInputs ==
    {i \in Inputs :
        LET settled == ComputedFor(i).settled
        IN  /\ settled.outcome = "resolve"
            /\ settled.videoInfo.frameCount = SpecifiedFrameCount(i.probe)}

\* C12: the descriptor's frameCount is the explicit count when that is
\* present and greater than 0, and round(duration * frameRate) otherwise.
C12_FrameCountDerivation ==
    \A r \in Reqs :
        (/\ req[r].pc = "responded"
         /\ req[r].wrote
         /\ ComputedFor(input[r]).settled.outcome = "resolve")
            => input[r] \in SpecifiedCountInputs

\* the inputs whose probe succeeds and whose descriptor validateVideoSpecs
\* returns a verdict for
ValidatingInputs ==
    {i \in Inputs : /\ ComputedFor(i).settled.outcome = "resolve"
                    /\ ComputedFor(i).validation.t = "return"}

\* C13: the sweep never removes the temp file of a request whose probe is
\* still running, and a request whose probe succeeds and whose descriptor
\* validates gets the success response.
C13_SweepSparesInFlight ==
    \A r \in Reqs :
        /\ req[r].pc = "probing" => ExistsSync(files, r)
        /\ (req[r].pc = "responded" /\ req[r].wrote /\ input[r] \in ValidatingInputs)
              => req[r].response.success
====
